---- MODULE Spec2Model ----
(***************************************************************************)
(* Model of encuesta-mercado: the Express/Mongoose backend                 *)
(* (src/src/backend/server.js), the administrator panel                    *)
(* (src/src/components/AdminPanel.js) and the survey form                  *)
(* (src/src/components/SurveyForm.js).                                     *)
(*                                                                         *)
(* JavaScript strings are modelled as sequences of one-character strings,  *)
(* so that join, split, parseInt and replace are computed character by     *)
(* character.  An absent (undefined) field is the one-element sequence     *)
(* <<"undefined">>, which no character sequence equals.                    *)
(***************************************************************************)
EXTENDS Integers, Sequences, FiniteSets, TLC

VARIABLES
    store,          \* Respuesta collection, in insertion order
    users,          \* User collection, in insertion order
    res,            \* last HTTP response written by the server
    surveys,        \* AdminPanel state: surveys
    alert,          \* AdminPanel state: alert
    loading,        \* AdminPanel state: loading
    getReq,         \* AdminPanel's GET /respuestas: "idle", "sent", "responded"
    getRes,         \* the response AdminPanel's pending axios.get resolves with
    timers,         \* pending setTimeout callbacks of exportResults (their closures)
    files,          \* CSV files downloaded so far (each a sequence of rows)
    formData,       \* SurveyForm state: formData
    formAlert,      \* SurveyForm state: alert
    isSubmitting,   \* SurveyForm state: isSubmitting
    postReq,        \* SurveyForm's POST /respuestas: "idle", "sent", "responded"
    postMsg,        \* the payload / response in flight for that POST
    notified,       \* payloads onSurveySubmit was called with
    events          \* checkbox events handled since the form was last reset

serverVars == <<store, users, res>>
panelVars  == <<surveys, alert, loading, getReq, getRes, timers, files>>
formVars   == <<formData, formAlert, isSubmitting, postReq, postMsg, notified, events>>
vars       == <<store, users, res, surveys, alert, loading, getReq, getRes, timers,
                files, formData, formAlert, isSubmitting, postReq, postMsg, notified,
                events>>

----------------------------------------------------------------------------
(* Bounds of the model *)

MaxStore  == 2      \* stored survey records
MaxUsers  == 2      \* stored administrators
MaxFiles  == 1      \* exports: files downloaded and callbacks pending
MaxEvents == 3      \* checkbox events between two form resets
MaxSubmitted == 1   \* records stored before the form stops submitting

----------------------------------------------------------------------------
(* JavaScript values *)

undefined == <<"undefined">>

\* JavaScript truthiness of a string-or-undefined value
Truthy(s) == s # undefined /\ s # <<>>

\* a || b
OrElse(a, b) == IF Truthy(a) THEN a ELSE b

Digits == {"0", "1", "2", "3", "4", "5", "6", "7", "8", "9"}

DigitVal(c) ==
    CASE c = "0" -> 0 [] c = "1" -> 1 [] c = "2" -> 2 [] c = "3" -> 3 [] c = "4" -> 4
      [] c = "5" -> 5 [] c = "6" -> 6 [] c = "7" -> 7 [] c = "8" -> 8 [] c = "9" -> 9

\* a JavaScript number: an integer or NaN
Num(v) == [nan |-> FALSE, val |-> v]
NaN    == [nan |-> TRUE, val |-> 0]

NumAdd(a, b) == IF a.nan \/ b.nan THEN NaN ELSE Num(a.val + b.val)
NumMul(a, b) == IF a.nan \/ b.nan THEN NaN ELSE Num(a.val * b.val)

Drop(s, n) == SubSeq(s, n + 1, Len(s))

StartsWith(s, p) == Len(s) >= Len(p) /\ SubSeq(s, 1, Len(p)) = p

RECURSIVE TrimStart(_)
TrimStart(s) ==
    IF s # <<>> /\ Head(s) = " " THEN TrimStart(Tail(s)) ELSE s

RECURSIVE DigitPrefix(_)
DigitPrefix(s) ==
    IF s # <<>> /\ Head(s) \in Digits THEN <<Head(s)>> \o DigitPrefix(Tail(s)) ELSE <<>>

RECURSIVE DecimalValue(_)
DecimalValue(ds) ==
    IF ds = <<>> THEN 0
    ELSE 10 * DecimalValue(SubSeq(ds, 1, Len(ds) - 1)) + DigitVal(ds[Len(ds)])

\* parseInt(s): leading blanks skipped, an optional sign, then the longest
\* run of decimal digits; NaN when there is no digit.  undefined converts to
\* the string "undefined", which has none.  (A 0x prefix, which parseInt
\* reads as hexadecimal, is in none of the strings explored.)
parseInt(s) ==
    IF s = undefined THEN NaN
    ELSE LET t    == TrimStart(s)
             neg  == t # <<>> /\ Head(t) = "-"
             body == IF t # <<>> /\ Head(t) \in {"-", "+"} THEN Tail(t) ELSE t
             ds   == DigitPrefix(body)
         IN  IF ds = <<>> THEN NaN
             ELSE Num(IF neg THEN 0 - DecimalValue(ds) ELSE DecimalValue(ds))

\* Array.prototype.join
RECURSIVE Join(_, _)
Join(list, sep) ==
    IF list = <<>> THEN <<>>
    ELSE IF Len(list) = 1 THEN list[1]
    ELSE list[1] \o sep \o Join(Tail(list), sep)

\* String.prototype.split with a non-empty string separator
RECURSIVE SplitFrom(_, _, _)
SplitFrom(s, sep, cur) ==
    IF s = <<>> THEN <<cur>>
    ELSE IF StartsWith(s, sep) THEN <<cur>> \o SplitFrom(Drop(s, Len(sep)), sep, <<>>)
    ELSE SplitFrom(Tail(s), sep, Append(cur, Head(s)))

Split(s, sep) == SplitFrom(s, sep, <<>>)

\* s.replace(/"/g, '""')
RECURSIVE EscapeQuotes(_)
EscapeQuotes(s) ==
    IF s = <<>> THEN <<>>
    ELSE (IF Head(s) = "\"" THEN <<"\"", "\"">> ELSE <<Head(s)>>) \o EscapeQuotes(Tail(s))

----------------------------------------------------------------------------
(* String literals of the source *)

Sep               == <<",", " ">>  \* ', '  (SurveyForm.js:44, AdminPanel.js:31)
CsvSep            == <<";", " ">>  \* '; '  (AdminPanel.js:57)
Ninguno           == <<"N", "i", "n", "g", "u", "n", "o">>
Ninguna           == <<"N", "i", "n", "g", "u", "n", "a">>
NingunaSugerencia == <<"N", "i", "n", "g", "u", "n", "a", " ", "s", "u", "g", "e", "r", "e", "n", "c", "i", "a">>
DefaultCalificacion == <<"3">>

\* checkbox values of the form
robo        == <<"r", "o", "b", "o">>
iluminacion == <<"i", "l", "u", "m", "i", "n", "a", "c", "i", "o", "n">>
vigilancia  == <<"v", "i", "g", "i", "l", "a", "n", "c", "i", "a">>
acceso      == <<"a", "c", "c", "e", "s", "o">>
emergencia  == <<"e", "m", "e", "r", "g", "e", "n", "c", "i", "a">>
otros       == <<"o", "t", "r", "o", "s">>

Vocabulary == {robo, iluminacion, vigilancia, acceso, emergencia, otros}

\* radio values of the form's rating
Calificaciones == {<<"1">>, <<"2">>, <<"3">>, <<"4">>, <<"5">>}

----------------------------------------------------------------------------
(* Plain JavaScript objects used as maps: a sequence of [k, v] entries in   *)
(* the order the properties were created.                                   *)

ObjHas(o, k) == \E i \in 1..Len(o) : o[i].k = k

\* o[k] = (o[k] || 0) + 1
ObjIncr(o, k) ==
    IF ObjHas(o, k)
    THEN [i \in 1..Len(o) |-> IF o[i].k = k THEN [k |-> k, v |-> o[i].v + 1] ELSE o[i]]
    ELSE Append(o, [k |-> k, v |-> 1])

\* an integer-like property name ("0", "7", "42"): such properties are
\* enumerated first, in ascending numeric order
IsArrayIndex(k) ==
    /\ k # undefined
    /\ k # <<>>
    /\ \A i \in 1..Len(k) : k[i] \in Digits
    /\ (Len(k) > 1 => k[1] # "0")

RECURSIVE SelectEntries(_, _)
SelectEntries(o, wantIndex) ==
    IF o = <<>> THEN <<>>
    ELSE (IF IsArrayIndex(Head(o).k) = wantIndex THEN <<Head(o)>> ELSE <<>>)
             \o SelectEntries(Tail(o), wantIndex)

RECURSIVE InsertAscending(_, _)
InsertAscending(e, sorted) ==
    IF sorted = <<>> THEN <<e>>
    ELSE IF DecimalValue(e.k) < DecimalValue(Head(sorted).k) THEN <<e>> \o sorted
    ELSE <<Head(sorted)>> \o InsertAscending(e, Tail(sorted))

RECURSIVE SortAscending(_)
SortAscending(o) ==
    IF o = <<>> THEN <<>> ELSE InsertAscending(Head(o), SortAscending(Tail(o)))

\* Object.entries(o)
ObjectEntries(o) == SortAscending(SelectEntries(o, TRUE)) \o SelectEntries(o, FALSE)

----------------------------------------------------------------------------
(* AdminPanel: pure parts *)

TopN == 5

NoAlert == [type |-> "null", message |-> "", n |-> 0]

Notice(type, message, n) == [type |-> type, message |-> message, n |-> n]

\* a map callback that passes sugerencia through without a default
FetchedSurveyWithoutSugerenciaDefault(item) ==
    [ id           |-> item._id,
      problemas    |-> IF Truthy(item.problemas) THEN Split(item.problemas, Sep) ELSE <<>>,
      sugerencia   |-> item.sugerencia,
      calificacion |-> OrElse(item.calificacion, DefaultCalificacion),
      synced       |-> TRUE ]

\* the callback of response.data.map in fetchSurveys
FetchedSurvey(item) ==
    [ id           |-> item._id,
      problemas    |-> IF Truthy(item.problemas) THEN Split(item.problemas, Sep) ELSE <<>>,
      sugerencia   |-> OrElse(item.sugerencia, NingunaSugerencia),
      calificacion |-> OrElse(item.calificacion, DefaultCalificacion),
      synced       |-> TRUE ]

FetchedSurveys(data) == [i \in 1..Len(data) |-> FetchedSurvey(data[i])]

\* calificacionStats after surveys.forEach
RECURSIVE CalificacionStatsOf(_)
CalificacionStatsOf(list) ==
    IF list = <<>> THEN <<>>
    ELSE ObjIncr(CalificacionStatsOf(SubSeq(list, 1, Len(list) - 1)),
                 list[Len(list)].calificacion)

RECURSIVE CountEach(_, _)
CountEach(o, problemas) ==
    IF problemas = <<>> THEN o
    ELSE CountEach(ObjIncr(o, Head(problemas)), Tail(problemas))

\* problemasStats after surveys.forEach
RECURSIVE ProblemasStatsOf(_)
ProblemasStatsOf(list) ==
    IF list = <<>> THEN <<>>
    ELSE CountEach(ProblemasStatsOf(SubSeq(list, 1, Len(list) - 1)),
                   list[Len(list)].problemas)

RECURSIVE SumEntries(_)
SumEntries(entries) ==
    IF entries = <<>> THEN Num(0)
    ELSE NumAdd(SumEntries(SubSeq(entries, 1, Len(entries) - 1)),
                NumMul(parseInt(entries[Len(entries)].k), Num(entries[Len(entries)].v)))

TotalCalificacionesOf(list) == SumEntries(ObjectEntries(CalificacionStatsOf(list)))

\* (a / b).toFixed(1), as a number of tenths: the nearest tenth, a tie going
\* away from zero.  A tie needs a / b to be an odd multiple of 1/20; for
\* b < 20 that is an odd multiple of 1/4, which a double holds exactly.
ToFixed1(a, b) ==
    LET abs == IF a < 0 THEN 0 - a ELSE a
        q   == (20 * abs + b) \div (2 * b)
    IN  IF a < 0 THEN 0 - q ELSE q

\* promedioCalificacion: the string of toFixed(1), or the number 0
PromedioCalificacionOf(list) ==
    IF Len(list) > 0
    THEN LET t == TotalCalificacionesOf(list)
         IN  [type |-> "string", nan |-> t.nan,
              tenths |-> IF t.nan THEN 0 ELSE ToFixed1(t.val, Len(list))]
    ELSE [type |-> "number", nan |-> FALSE, tenths |-> 0]

\* Array.prototype.sort((a, b) => b[1] - a[1]): stable, larger counts first
RECURSIVE InsertDescending(_, _)
InsertDescending(e, sorted) ==
    IF sorted = <<>> THEN <<e>>
    ELSE IF Head(sorted).v - e.v < 0 THEN <<e>> \o sorted
    ELSE <<Head(sorted)>> \o InsertDescending(e, Tail(sorted))

RECURSIVE SortDescending(_)
SortDescending(entries) ==
    IF entries = <<>> THEN <<>>
    ELSE InsertDescending(entries[Len(entries)],
                          SortDescending(SubSeq(entries, 1, Len(entries) - 1)))

Slice(list, n) == SubSeq(list, 1, IF Len(list) < n THEN Len(list) ELSE n)

\* the entries rendered under "Problemas Mas Frecuentes"
TopIssuesOf(list) == Slice(SortDescending(ObjectEntries(ProblemasStatsOf(list))), TopN)

\* one CSV row of exportResults (the columns the fetched survey carries)
CsvRow(e) ==
    [ id           |-> e.id,
      calificacion |-> e.calificacion,
      problemas    |-> IF e.problemas # undefined /\ Len(e.problemas) > 0
                       THEN Join(e.problemas, CsvSep) ELSE Ninguno,
      sugerencia   |-> EscapeQuotes(OrElse(e.sugerencia, Ninguna)) ]

CsvRows(list) == [i \in 1..Len(list) |-> CsvRow(list[i])]

\* the statistics of the current render
calificacionStats    == CalificacionStatsOf(surveys)
problemasStats       == ProblemasStatsOf(surveys)
totalCalificaciones  == TotalCalificacionesOf(surveys)
promedioCalificacion == PromedioCalificacionOf(surveys)
topIssues            == TopIssuesOf(surveys)

----------------------------------------------------------------------------
(* Request bodies and credentials the clients send *)

ok    == <<"o", "k">>
dijo  == <<"\"", "s", "i", "\"">>
abc   == <<"a", "b", "c">>

Body(problemas, sugerencia, calificacion) ==
    [problemas |-> problemas, sugerencia |-> sugerencia, calificacion |-> calificacion]

\* bodies posted while the protocol of the panel is explored
ProtocolBodies ==
    { Body(robo, ok, <<"5">>),
      Body(<<>>, undefined, <<"2">>) }

siete == <<"7">>

\* bodies posted while the statistics and the export are explored: what the
\* form sends, and what any other client of the unvalidated endpoint may send
StatsBodies ==
    { Body(Join(<<robo, iluminacion>>, Sep), ok, <<"5">>),
      Body(<<>>, <<>>, <<"3">>),
      Body(robo, undefined, <<"4">>),
      Body(Join(<<robo, iluminacion, vigilancia, acceso, emergencia, otros>>, Sep),
           dijo, <<"2">>),
      Body(otros, ok, undefined),
      Body(robo \o Sep, ok, abc),
      Body(undefined, ok, <<>>),
      Body(Join(<<iluminacion, siete>>, Sep), <<>>, <<"1">>) }

Usuarios  == {"admin", "ana"}
Emails    == {"admin@mercado", "ana@mercado"}
Passwords == {"clave", "otra"}
Missing   == ""          \* a field left out of the request body
ADMIN_REGISTER_TOKEN == "secreto"
Tokens    == {ADMIN_REGISTER_TOKEN, "falso"}

Response(route, status) == [route |-> route, status |-> status]

----------------------------------------------------------------------------
(* Initial state: an empty database, both components just constructed *)

EmptyForm == [problemas |-> <<>>, sugerencia |-> <<>>, calificacion |-> <<>>]

\* no response, no request in flight
NoResponse == [status |-> 0, array |-> FALSE, data |-> <<>>]
NoPost     == [body |-> EmptyForm, checked |-> <<>>, status |-> 0]

Init ==
    /\ store = <<>>
    /\ users = <<>>
    /\ res = Response("", 0)
    /\ surveys = <<>>
    /\ alert = NoAlert
    /\ loading = FALSE
    /\ getReq = "idle"
    /\ getRes = NoResponse
    /\ timers = <<>>
    /\ files = <<>>
    /\ formData = EmptyForm
    /\ formAlert = NoAlert
    /\ isSubmitting = FALSE
    /\ postReq = "idle"
    /\ postMsg = NoPost
    /\ notified = <<>>
    /\ events = <<>>

----------------------------------------------------------------------------
(* Backend: the four handlers of server.js.  dbOk is the outcome of the     *)
(* Mongoose call (the promise fulfils or rejects).                          *)

\* the document nuevaRespuesta.save() inserts: the body's fields and a new _id.
\* Of the schema's fields the model carries problemas, sugerencia and
\* calificacion; nombre, puesto, telefono, seguridad, fecha and hora are
\* stored, fetched and exported the same way and take part in no statistic
\* modelled here.
NuevaRespuesta(body) ==
    [ _id          |-> Len(store) + 1,
      problemas    |-> body.problemas,
      sugerencia   |-> body.sugerencia,
      calificacion |-> body.calificacion ]

\* a handler that inserts the document even when it answers 500
PostRespuestasInsertingOnError(body, dbOk) ==
    /\ Len(store) < MaxStore
    /\ store' = Append(store, NuevaRespuesta(body))
    /\ res' = Response("POST /api/respuestas", IF dbOk THEN 201 ELSE 500)

\* app.post('/api/respuestas')
PostRespuestas(body, dbOk) ==
    IF dbOk
    THEN /\ Len(store) < MaxStore
         /\ store' = Append(store, NuevaRespuesta(body))
         /\ res' = Response("POST /api/respuestas", 201)
    ELSE /\ store' = store
         /\ res' = Response("POST /api/respuestas", 500)

\* a client other than the form posts a body
ClientPost(bodies) ==
    /\ \E body \in bodies, dbOk \in BOOLEAN : PostRespuestas(body, dbOk)
    /\ UNCHANGED <<users, panelVars, formVars>>

\* app.get('/api/respuestas'), serving the panel's request
GetRespuestas ==
    /\ getReq = "sent"
    /\ \E dbOk \in BOOLEAN :
          IF dbOk
          THEN getRes' = [status |-> 200, array |-> TRUE, data |-> store]
          ELSE getRes' = [status |-> 500, array |-> FALSE, data |-> <<>>]
    /\ getReq' = "responded"
    /\ UNCHANGED <<serverVars, surveys, alert, loading, timers, files, formVars>>

\* User.findOne({ usuario }) for a usuario string: the index of the user, or 0
FindOne(usuario) ==
    LET hits == {i \in 1..Len(users) : users[i].usuario = usuario}
    IN  IF hits = {} THEN 0 ELSE CHOOSE i \in hits : \A j \in hits : i <= j

\* a login handler that only tests whether the user was found
LoginRequestWithoutPasswordCheck(usuario, password, dbOk) ==
    /\ res' = IF ~dbOk THEN Response("POST /api/login", 500)
              ELSE IF FindOne(usuario) = 0
              THEN Response("POST /api/login", 401)
              ELSE Response("POST /api/login", 200)
    /\ UNCHANGED <<store, users, panelVars, formVars>>

\* app.post('/api/login') for one request; dbOk: User.findOne resolves
LoginRequest(usuario, password, dbOk) ==
    /\ res' = IF ~dbOk THEN Response("POST /api/login", 500)
              ELSE IF FindOne(usuario) = 0 \/ users[FindOne(usuario)].password # password
              THEN Response("POST /api/login", 401)
              ELSE Response("POST /api/login", 200)
    /\ UNCHANGED <<store, users, panelVars, formVars>>

\* app.post('/api/login')
Login(usuarios, passwords) ==
    \E usuario \in usuarios, password \in passwords, dbOk \in BOOLEAN :
        LoginRequest(usuario, password, dbOk)

\* a save against a collection whose unique indexes were never built
SaveUserErrorWithoutUniqueIndex(usuario, email, password, dbOk) ==
    IF Missing \in {usuario, email, password} THEN "ValidationError"
    ELSE IF ~dbOk THEN "MongoNetworkError"
    ELSE ""

\* what newUser.save() rejects with: "" when it inserts.  The required
\* validators run before the insert is sent; the unique indexes of usuario
\* and email reject the insert with code 11000.
SaveUserError(usuario, email, password, dbOk) ==
    IF Missing \in {usuario, email, password} THEN "ValidationError"
    ELSE IF ~dbOk THEN "MongoNetworkError"
    ELSE IF \E i \in 1..Len(users) : users[i].usuario = usuario \/ users[i].email = email
    THEN "E11000"
    ELSE ""

\* app.post('/api/register') for one request; dbOk: the insert reaches the
\* database
RegisterRequest(token, usuario, email, password, dbOk) ==
    /\ IF token # ADMIN_REGISTER_TOKEN
       THEN /\ res' = Response("POST /api/register", 403)
            /\ users' = users
       ELSE LET err == SaveUserError(usuario, email, password, dbOk)
            IN  IF err = ""
                THEN /\ Len(users) < MaxUsers
                     /\ users' = Append(users, [usuario |-> usuario, email |-> email,
                                                password |-> password])
                     /\ res' = Response("POST /api/register", 201)
                ELSE /\ users' = users
                     /\ res' = Response("POST /api/register",
                                        IF err = "E11000" THEN 409 ELSE 500)
    /\ UNCHANGED <<store, panelVars, formVars>>

\* app.post('/api/register')
Register(usuarios, emails, passwords) ==
    \E token \in Tokens, usuario \in usuarios, email \in emails,
       password \in passwords, dbOk \in BOOLEAN :
        RegisterRequest(token, usuario, email, password, dbOk)

----------------------------------------------------------------------------
(* AdminPanel: fetchSurveys, exportResults, clearResults *)

\* fetchSurveys up to its await; called on mount and by the refresh button,
\* which is disabled while loading
fetchSurveysCall ==
    /\ ~loading
    /\ getReq = "idle"
    /\ loading' = TRUE
    /\ alert' = NoAlert
    /\ getReq' = "sent"
    /\ UNCHANGED <<serverVars, surveys, getRes, timers, files, formVars>>

\* the request is lost, or an intermediary answers it: no response, an error
\* status, or a 200 whose body is not the array of documents
GetTransportFailure ==
    /\ getReq = "sent"
    /\ \E r \in { [status |-> 0,   array |-> FALSE, data |-> <<>>],
                  [status |-> 502, array |-> FALSE, data |-> <<>>],
                  [status |-> 200, array |-> FALSE, data |-> <<>>] } : getRes' = r
    /\ getReq' = "responded"
    /\ UNCHANGED <<serverVars, surveys, alert, loading, timers, files, formVars>>

\* a fetchSurveys whose catch block empties the list
fetchSurveysResumeClearing ==
    /\ getReq = "responded"
    /\ IF getRes.status = 200 /\ getRes.array
       THEN /\ surveys' = FetchedSurveys(getRes.data)
            /\ alert' = Notice("success", "cargados", Len(getRes.data))
       ELSE /\ surveys' = <<>>
            /\ alert' = Notice("danger", "error al cargar", 0)
    /\ loading' = FALSE
    /\ getReq' = "idle"
    /\ getRes' = NoResponse
    /\ UNCHANGED <<serverVars, timers, files, formVars>>

\* fetchSurveys after its await: the try body, or catch, and finally
fetchSurveysResume ==
    /\ getReq = "responded"
    /\ IF getRes.status = 200 /\ getRes.array
       THEN /\ surveys' = FetchedSurveys(getRes.data)
            /\ alert' = Notice("success", "cargados", Len(getRes.data))
       ELSE /\ surveys' = surveys
            /\ alert' = Notice("danger", "error al cargar", 0)
    /\ loading' = FALSE
    /\ getReq' = "idle"
    /\ getRes' = NoResponse
    /\ UNCHANGED <<serverVars, timers, files, formVars>>

\* an exportResults without the early return on an empty list
exportResultsUnguarded ==
    /\ Len(files) + Len(timers) < MaxFiles
    /\ alert' = Notice("warning", "preparando", 0)
    /\ timers' = Append(timers, surveys)
    /\ UNCHANGED <<serverVars, surveys, loading, getReq, getRes, files, formVars>>

\* exportResults: the click handler
exportResults ==
    /\ IF Len(surveys) = 0
       THEN /\ alert' = Notice("warning", "no hay datos", 0)
            /\ timers' = timers
       ELSE /\ Len(files) + Len(timers) < MaxFiles
            /\ alert' = Notice("warning", "preparando", 0)
            /\ timers' = Append(timers, surveys)
    /\ UNCHANGED <<serverVars, surveys, loading, getReq, getRes, files, formVars>>

\* a deferred callback that reads the list of the render current when it runs
exportTimeoutReadingCurrentList ==
    /\ timers # <<>>
    /\ files' = Append(files, CsvRows(surveys))
    /\ alert' = Notice("success", "exportado", Len(surveys))
    /\ timers' = Tail(timers)
    /\ UNCHANGED <<serverVars, surveys, loading, getReq, getRes, formVars>>

\* the setTimeout callback of exportResults; it reads the surveys of the
\* render its click handler belonged to
exportTimeout ==
    /\ timers # <<>>
    /\ files' = Append(files, CsvRows(Head(timers)))
    /\ alert' = Notice("success", "exportado", Len(Head(timers)))
    /\ timers' = Tail(timers)
    /\ UNCHANGED <<serverVars, surveys, loading, getReq, getRes, formVars>>

\* a clearResults that also empties the collection behind the panel
clearResultsDeleting(confirmed) ==
    IF confirmed
    THEN /\ surveys' = <<>>
         /\ store' = <<>>
         /\ alert' = Notice("success", "eliminadas localmente", 0)
         /\ UNCHANGED <<users, res, loading, getReq, getRes, timers, files, formVars>>
    ELSE UNCHANGED vars

\* clearResults: window.confirm answers confirmed
clearResults(confirmed) ==
    IF confirmed
    THEN /\ surveys' = <<>>
         /\ alert' = Notice("success", "eliminadas localmente", 0)
         /\ UNCHANGED <<serverVars, loading, getReq, getRes, timers, files, formVars>>
    ELSE UNCHANGED vars

----------------------------------------------------------------------------
(* The panel and the backend *)

Next ==
    \/ ClientPost(ProtocolBodies)
    \/ GetRespuestas
    \/ Login(Usuarios, Passwords)
    \/ Register({"admin"}, {"admin@mercado"}, {"clave"})
    \/ fetchSurveysCall
    \/ GetTransportFailure
    \/ fetchSurveysResume
    \/ exportResults
    \/ exportTimeout
    \/ \E confirmed \in BOOLEAN : clearResults(confirmed)

Spec == Init /\ [][Next]_vars

----------------------------------------------------------------------------
(* Properties of the panel and the backend *)

\* the pending GET has been answered with the array of documents
GetSucceeded == getRes.status = 200 /\ getRes.array

\* a step of fetchSurveys or of its request, other than a successful resume
FetchStepWithoutSuccess ==
    /\ getReq' # getReq
    /\ ~(getReq = "responded" /\ GetSucceeded)

\* C1: a fetchSurveys that fails (no response, an error status, or a body
\* whose processing throws) never changes surveys, in any of its steps, and
\* ends with the danger alert set.
C1_FailedFetchKeepsSurveys ==
    [][ /\ (FetchStepWithoutSuccess => surveys' = surveys)
        /\ (getReq = "responded" /\ ~GetSucceeded /\ getReq' = "idle"
               => /\ alert' = Notice("danger", "error al cargar", 0)
                  /\ loading' = FALSE) ]_vars

\* a fetch has failed while the panel held records, and it still holds them
C1_Witness ==
    /\ alert = Notice("danger", "error al cargar", 0)
    /\ getReq = "idle"
    /\ Len(surveys) = 2

\* C2: a confirmed clearResults empties surveys and touches neither the
\* collection nor any request; the backend answers a GET with every stored
\* record and a successful fetch puts exactly those into surveys; a declined
\* clearResults changes nothing.
C2_ClearIsLocalOnly ==
    [][ /\ (clearResults(TRUE)
               => /\ surveys' = <<>>
                  /\ store' = store /\ users' = users /\ res' = res
                  /\ getReq' = getReq /\ getRes' = getRes
                  /\ postReq' = postReq /\ postMsg' = postMsg)
        /\ (clearResults(FALSE) => UNCHANGED vars)
        /\ (getReq = "sent" /\ getReq' = "responded" /\ getRes'.status = 200
               /\ getRes'.array => getRes'.data = store)
        /\ (getReq = "responded" /\ GetSucceeded /\ getReq' = "idle"
               => /\ Len(surveys') = Len(getRes.data)
                  /\ \A i \in 1..Len(getRes.data) : surveys'[i].id = getRes.data[i]._id) ]_vars

\* the list has been cleared while the collection holds records
C2_Witness ==
    /\ alert = Notice("success", "eliminadas localmente", 0)
    /\ surveys = <<>>
    /\ Len(store) = 2

\* C3: exportResults on an empty list schedules nothing, produces no file
\* and sets the warning; every scheduled callback and every file comes from
\* a non-empty list.
C3_EmptyExportIsWarningOnly ==
    [][ /\ (exportResults /\ Len(surveys) = 0
               => /\ timers' = timers
                  /\ files' = files
                  /\ alert' = Notice("warning", "no hay datos", 0))
        /\ \A i \in 1..Len(timers') : Len(timers'[i]) > 0
        /\ \A i \in 1..Len(files') : Len(files'[i]) > 0 ]_vars

\* export was invoked on an empty list
C3_Witness ==
    /\ alert = Notice("warning", "no hay datos", 0)
    /\ surveys = <<>>
    /\ timers = <<>>
    /\ files = <<>>

\* C4: every step keeps every stored record as it is; the collection grows
\* by one record exactly in a POST /api/respuestas answered 201, and a POST
\* answered 500 adds nothing.
C4_StoreIsAppendOnly ==
    [][ /\ Len(store') \in {Len(store), Len(store) + 1}
        /\ \A i \in 1..Len(store) : store'[i] = store[i]
        /\ (Len(store') = Len(store) + 1
               => res' = Response("POST /api/respuestas", 201))
        /\ (ClientPost(ProtocolBodies) /\ res'.status = 201
               => Len(store') = Len(store) + 1)
        /\ (ClientPost(ProtocolBodies) /\ res'.status = 500
               => store' = store) ]_vars

\* records are stored, and a failed POST was the last request answered
C4_Witness ==
    /\ Len(store) = 2
    /\ res = Response("POST /api/respuestas", 500)
    /\ surveys = <<>>
    /\ files # <<>>

----------------------------------------------------------------------------
(* The statistics and the export over what the backend stores *)

NextStats ==
    \/ ClientPost(StatsBodies)
    \/ fetchSurveysCall
    \/ GetRespuestas
    \/ fetchSurveysResume
    \/ exportResults
    \/ exportTimeout

SpecStats == Init /\ [][NextStats]_vars

----------------------------------------------------------------------------
(* Properties of the statistics and the export *)

\* the stored document a fetched survey was made from
StoredOf(e) == store[e.id]

Abs(x) == IF x < 0 THEN 0 - x ELSE x

RECURSIVE Sum(_)
Sum(ints) == IF ints = <<>> THEN 0 ELSE Head(ints) + Sum(Tail(ints))

SumOver(list, F(_)) == Sum([i \in 1..Len(list) |-> F(list[i])])

RECURSIVE Concat(_)
Concat(lists) == IF lists = <<>> THEN <<>> ELSE Head(lists) \o Concat(Tail(lists))

\* a rating that parseInt turns into an integer
Parsable(cal) == ~parseInt(cal).nan

ParsedOrZero(cal) == IF Parsable(cal) THEN parseInt(cal).val ELSE 0

\* the displayed average is a number within rounding to one decimal of sum / n
AverageIs(sum, n) ==
    /\ promedioCalificacion.type = "string"
    /\ ~promedioCalificacion.nan
    /\ 2 * Abs(promedioCalificacion.tenths * n - 10 * sum) <= n

\* C5: for a non-empty surveys the displayed average times the number of
\* records is the sum of the parsed ratings, within rounding to one decimal;
\* for an empty surveys the average is the number 0.
C5_AverageTimesCountIsSum ==
    IF Len(surveys) = 0
    THEN promedioCalificacion = [type |-> "number", nan |-> FALSE, tenths |-> 0]
    ELSE /\ \A i \in 1..Len(surveys) : Parsable(surveys[i].calificacion)
         /\ LET Rating(e) == parseInt(e.calificacion).val
            IN  AverageIs(SumOver(surveys, Rating), Len(surveys))

\* C6: a fetched record whose stored rating is missing or unparsable adds 0
\* to the sum and is counted in the divisor: the average is the sum of the
\* other records' stored ratings over the number of records, a number.
C6_BadRatingCountsAsZero ==
    Len(surveys) > 0 =>
        LET StoredRating(e) == ParsedOrZero(StoredOf(e).calificacion)
        IN  AverageIs(SumOver(surveys, StoredRating), Len(surveys))

\* the tokens of a stored issues string, the empty ones discarded
NonEmptyTokens(problemas) ==
    IF ~Truthy(problemas) THEN <<>>
    ELSE SelectSeq(Split(problemas, Sep), LAMBDA t : t # <<>>)

\* C7: the values of problemasStats add up to the number of (record, tag)
\* pairs, the tags of a record being the non-empty tokens of its stored
\* issues string, and there is no bucket for the empty tag.
C7_IssueCountsSumToPairs ==
    LET Count(entry)  == entry.v
        Tags(e)       == Len(NonEmptyTokens(StoredOf(e).problemas))
    IN  /\ SumOver(problemasStats, Count) = SumOver(surveys, Tags)
        /\ ~ObjHas(problemasStats, <<>>)

\* every tag of surveys, in the order the records and their lists give them
Encountered == Concat([i \in 1..Len(surveys) |-> surveys[i].problemas])

FirstEncounter(tag) ==
    CHOOSE i \in 1..Len(Encountered) :
        /\ Encountered[i] = tag
        /\ \A j \in 1..(i - 1) : Encountered[j] # tag

Occurrences(tag) == Cardinality({i \in 1..Len(Encountered) : Encountered[i] = tag})

\* tag a is ranked before tag b: a larger count, or the same count and an
\* earlier first encounter
RankedBefore(a, b) ==
    \/ Occurrences(a) > Occurrences(b)
    \/ Occurrences(a) = Occurrences(b) /\ FirstEncounter(a) < FirstEncounter(b)

\* C8: topIssues lists the tags by count descending, ties in the order of
\* first encounter, cut to 5: no tag it omits is ranked before one it lists.
C8_TopIssuesRanked ==
    LET tags   == {Encountered[i] : i \in 1..Len(Encountered)}
        listed == {topIssues[i].k : i \in 1..Len(topIssues)}
    IN  /\ Len(topIssues) = (IF Cardinality(tags) < TopN THEN Cardinality(tags) ELSE TopN)
        /\ listed \subseteq tags
        /\ \A i \in 1..Len(topIssues) : topIssues[i].v = Occurrences(topIssues[i].k)
        /\ \A i, j \in 1..Len(topIssues) :
               i < j => RankedBefore(topIssues[i].k, topIssues[j].k)
        /\ \A t \in tags \ listed : \A u \in listed : RankedBefore(u, t)

\* every exported row renders as `text` the suggestion of a record stored
\* without one, and as Ninguno the issues of a record stored without any
ExportRenders(text) ==
    \A f \in 1..Len(files) : \A r \in 1..Len(files[f]) :
        LET row    == files[f][r]
            stored == store[row.id]
        IN  /\ (~Truthy(stored.sugerencia) => row.sugerencia = text)
            /\ (~Truthy(stored.problemas) => row.problemas = Ninguno)

\* C9 as claimed: an empty or absent suggestion is exported as Ninguna, an
\* empty issue set as Ninguno.
C9_ExportsNinguna == ExportRenders(Ninguna)

\* C9 as amended: an empty or absent suggestion is exported as
\* Ninguna sugerencia, the default fetchSurveys gave it; an empty or absent
\* issues string is exported as Ninguno.
C9_ExportsNingunaSugerencia == ExportRenders(NingunaSugerencia)

\* a file holds the row of a record stored with neither suggestion nor issues
C9_Witness ==
    \E f \in 1..Len(files) : \E r \in 1..Len(files[f]) :
        /\ ~Truthy(store[files[f][r].id].sugerencia)
        /\ ~Truthy(store[files[f][r].id].problemas)
        /\ files[f][r].sugerencia = NingunaSugerencia

----------------------------------------------------------------------------
(* SurveyForm: handleChange and handleSubmit *)

\* the checkboxes and the rating the form is driven with
FormTags == {robo, iluminacion, otros}
FormCalificaciones == {<<"4">>}

Without(list, value) == SelectSeq(list, LAMBDA p : p # value)

\* handleChange, type === 'checkbox'.  The box is controlled
\* (checked = problemas.includes(value)), so a click reports the opposite
\* of what formData holds.
handleChangeCheckbox(value) ==
    /\ Len(events) < MaxEvents
    /\ LET checked == \A i \in 1..Len(formData.problemas) : formData.problemas[i] # value
       IN  /\ formData' = [formData EXCEPT !.problemas =
                              IF checked THEN Append(@, value) ELSE Without(@, value)]
           /\ events' = Append(events, [value |-> value, checked |-> checked])
    /\ UNCHANGED <<serverVars, panelVars, formAlert, isSubmitting, postReq, postMsg,
                   notified>>

\* handleChange for the rating radio
handleChangeCalificacion(value) ==
    /\ formData.calificacion # value
    /\ formData' = [formData EXCEPT !.calificacion = value]
    /\ UNCHANGED <<serverVars, panelVars, formAlert, isSubmitting, postReq, postMsg,
                   notified, events>>

\* a surveyData that joins the tags with a bare comma
SurveyDataCommaJoined(data) == [data EXCEPT !.problemas = Join(data.problemas, <<",">>)]

\* surveyData of handleSubmit
SurveyData(data) == [data EXCEPT !.problemas = Join(data.problemas, Sep)]

\* handleSubmit up to its await; the button is disabled while submitting and
\* the browser submits only with the required rating chosen
handleSubmitCall ==
    /\ ~isSubmitting
    /\ postReq = "idle"
    /\ formData.calificacion # <<>>
    /\ Len(store) < MaxSubmitted
    /\ isSubmitting' = TRUE
    /\ formAlert' = NoAlert
    /\ postReq' = "sent"
    /\ postMsg' = [body |-> SurveyData(formData), checked |-> events, status |-> 0]
    /\ UNCHANGED <<serverVars, panelVars, formData, notified, events>>

\* the backend serves the form's POST
FormPostServed ==
    /\ postReq = "sent"
    /\ \E dbOk \in BOOLEAN :
          /\ PostRespuestas(postMsg.body, dbOk)
          /\ postMsg' = [postMsg EXCEPT !.status = IF dbOk THEN 201 ELSE 500]
    /\ postReq' = "responded"
    /\ UNCHANGED <<users, panelVars, formData, formAlert, isSubmitting, notified, events>>

\* the request or its response is lost
PostTransportFailure ==
    /\ postReq \in {"sent", "responded"}
    /\ postMsg.status # 0 \/ postReq = "sent"
    /\ postMsg' = [postMsg EXCEPT !.status = 0]
    /\ postReq' = "responded"
    /\ UNCHANGED <<serverVars, panelVars, formData, formAlert, isSubmitting, notified,
                   events>>

\* a handleSubmit that empties the form in its finally block
handleSubmitResumeResettingAlways ==
    /\ postReq = "responded"
    /\ IF postMsg.status = 201
       THEN \E returns \in BOOLEAN :
            /\ formAlert' = IF returns THEN Notice("success", "enviada", 0)
                            ELSE Notice("danger", "error al enviar", 0)
            /\ events' = <<>>
            /\ notified' = Append(notified, postMsg.body)
       ELSE /\ formAlert' = Notice("danger", "error al enviar", 0)
            /\ events' = <<>>
            /\ UNCHANGED notified
    /\ formData' = EmptyForm
    /\ isSubmitting' = FALSE
    /\ postReq' = "idle"
    /\ postMsg' = NoPost
    /\ UNCHANGED <<serverVars, panelVars>>

\* handleSubmit after its await: the try body, or catch, and finally.
\* onSurveySubmit is the parent's function: it is called last in the try
\* body, and when it throws (returns = FALSE) the catch replaces the notice.
handleSubmitResume ==
    /\ postReq = "responded"
    /\ IF postMsg.status = 201
       THEN \E returns \in BOOLEAN :
            /\ formAlert' = IF returns THEN Notice("success", "enviada", 0)
                            ELSE Notice("danger", "error al enviar", 0)
            /\ formData' = EmptyForm
            /\ events' = <<>>
            /\ notified' = Append(notified, postMsg.body)
       ELSE /\ formAlert' = Notice("danger", "error al enviar", 0)
            /\ UNCHANGED <<formData, events, notified>>
    /\ isSubmitting' = FALSE
    /\ postReq' = "idle"
    /\ postMsg' = NoPost
    /\ UNCHANGED <<serverVars, panelVars>>

NextForm ==
    \/ \E value \in FormTags : handleChangeCheckbox(value)
    \/ \E value \in FormCalificaciones : handleChangeCalificacion(value)
    \/ handleSubmitCall
    \/ FormPostServed
    \/ PostTransportFailure
    \/ handleSubmitResume
    \/ fetchSurveysCall
    \/ GetRespuestas
    \/ fetchSurveysResume

SpecForm == Init /\ [][NextForm]_vars

----------------------------------------------------------------------------
(* Properties of the form *)

\* the tags a log of checkbox events leaves checked, in the order of the
\* events that checked them
RECURSIVE CheckedFrom(_, _)
CheckedFrom(log, i) ==
    IF i > Len(log) THEN <<>>
    ELSE (IF log[i].checked /\ \A j \in (i + 1)..Len(log) : log[j].value # log[i].value
          THEN <<log[i].value>> ELSE <<>>) \o CheckedFrom(log, i + 1)

CheckedTags(log) == CheckedFrom(log, 1)

\* the form's POST has been answered 201 and the response not yet handled
PostStored == postReq = "responded" /\ postMsg.status = 201

\* C10: formData.problemas is the checked tags in the order they were
\* checked; the submitted and stored issues string is their join with ', ';
\* and the record fetched back carries exactly those tags, each once, in
\* that order (none for an empty selection).
C10_TagsRoundTrip ==
    /\ formData.problemas = CheckedTags(events)
    /\ postReq # "idle" => postMsg.body.problemas = Join(CheckedTags(postMsg.checked), Sep)
    /\ PostStored => store[Len(store)].problemas = Join(CheckedTags(postMsg.checked), Sep)
    /\ PostStored /\ Len(surveys) = Len(store) =>
          LET tags == surveys[Len(surveys)].problemas
          IN  /\ tags = CheckedTags(postMsg.checked)
              /\ \A i, j \in 1..Len(tags) : i # j => tags[i] # tags[j]

\* two tags checked out of vocabulary order have been stored and fetched back
C10_Witness ==
    /\ PostStored
    /\ Len(surveys) = Len(store)
    /\ surveys[Len(surveys)].problemas = <<otros, iluminacion>>

----------------------------------------------------------------------------
(* The two credential handlers *)

LoginPasswords    == Passwords \cup {Missing}
RegisterUsuarios  == Usuarios \cup {Missing}
RegisterPasswords == Passwords \cup {Missing}

NextAuth ==
    \/ Login(Usuarios, LoginPasswords)
    \/ Register(RegisterUsuarios, Emails, RegisterPasswords)

SpecAuth == Init /\ [][NextAuth]_vars

\* usuario is stored, with a password other than the one given
WrongPassword(usuario, password) ==
    \E i \in 1..Len(users) : users[i].usuario = usuario /\ users[i].password # password

\* every login request for a stored usuario with a wrong password, whose
\* lookup ends the way `outcomes` allows, is answered with `status`
WrongPasswordAnswered(outcomes, status) ==
    \A usuario \in Usuarios, password \in LoginPasswords, dbOk \in outcomes :
        LoginRequest(usuario, password, dbOk) /\ WrongPassword(usuario, password)
            => res' = Response("POST /api/login", status)

\* C11 as claimed: a login with a stored usuario and a wrong password is
\* answered 401, never 500 and never 200, and no login changes the users.
C11_WrongPasswordIs401 ==
    [][ /\ WrongPasswordAnswered(BOOLEAN, 401)
        /\ (Login(Usuarios, LoginPasswords) => users' = users) ]_vars

\* C11 as amended: such a login is answered 401 whenever User.findOne
\* resolves and 500 only when it rejects, never 200, and no login changes
\* the users.
C11_WrongPasswordIs401UnlessLookupFails ==
    [][ /\ WrongPasswordAnswered({TRUE}, 401)
        /\ WrongPasswordAnswered({FALSE}, 500)
        /\ (Login(Usuarios, LoginPasswords) => users' = users) ]_vars

\* every usuario is stored, and a login has just been refused: it gave a
\* wrong password
C11_Witness ==
    /\ \A usuario \in Usuarios : FindOne(usuario) # 0
    /\ res = Response("POST /api/login", 401)

\* a stored user already has this usuario or this email
Duplicate(usuario, email) ==
    \E i \in 1..Len(users) : users[i].usuario = usuario \/ users[i].email = email

\* no two users of the list share a usuario or an email
UniqueCredentials(list) ==
    \A i, j \in 1..Len(list) :
        i # j => list[i].usuario # list[j].usuario /\ list[i].email # list[j].email

\* every register request with the right token, a duplicate credential and
\* one of `passwords`, whose insert ends the way `outcomes` allows, is
\* answered with `status` and stores nothing
DuplicateAnswered(usuarios, passwords, outcomes, status) ==
    \A usuario \in usuarios, email \in Emails, password \in passwords, dbOk \in outcomes :
        /\ RegisterRequest(ADMIN_REGISTER_TOKEN, usuario, email, password, dbOk)
        /\ Duplicate(usuario, email)
        => res' = Response("POST /api/register", status) /\ users' = users

\* every register request whose token is not the configured one is answered
\* 403 and stores nothing
BadTokenRefused ==
    \A token \in Tokens \ {ADMIN_REGISTER_TOKEN}, usuario \in RegisterUsuarios,
       email \in Emails, password \in RegisterPasswords, dbOk \in BOOLEAN :
        RegisterRequest(token, usuario, email, password, dbOk)
            => res' = Response("POST /api/register", 403) /\ users' = users

\* C12 as claimed: a register request with the right token and a usuario or
\* email that is already stored is answered 409, not 500, and stores
\* nothing; stored users never share a usuario or an email; a request with
\* another token is answered 403 and stores nothing.
C12_DuplicateIs409 ==
    [][ /\ DuplicateAnswered(RegisterUsuarios, RegisterPasswords, BOOLEAN, 409)
        /\ UniqueCredentials(users')
        /\ BadTokenRefused ]_vars

\* C12 as amended: such a request is answered 409 when usuario, email and
\* password are all present and the insert reaches the database, and 500
\* when a field is missing or the database call fails; it stores nothing
\* either way; stored users never share a usuario or an email; a request
\* with another token is answered 403 and stores nothing.
C12_DuplicateIs409WhenSaveReachesIndex ==
    [][ /\ DuplicateAnswered(Usuarios, Passwords, {TRUE}, 409)
        /\ DuplicateAnswered(Usuarios, Passwords, {FALSE}, 500)
        /\ DuplicateAnswered(RegisterUsuarios, {Missing}, BOOLEAN, 500)
        /\ DuplicateAnswered({Missing}, RegisterPasswords, BOOLEAN, 500)
        /\ UniqueCredentials(users')
        /\ BadTokenRefused ]_vars

\* a user is stored and a registration has just been refused as a duplicate
C12_Witness ==
    /\ Len(users) >= 1
    /\ res = Response("POST /api/register", 409)

\* the POST of the pending handleSubmit failed: a 500, or no response
PostFailed == postReq = "responded" /\ postMsg.status # 201

\* C13: when the POST fails, handleSubmit keeps the form fields, does not
\* call onSurveySubmit and sets an error notice; when it succeeds, it empties
\* the form and calls onSurveySubmit once with the payload that was sent and
\* stored; onSurveySubmit is called by no other step; either way the
\* submitting flag is false afterwards.
C13_FailedPostKeepsForm ==
    [][ /\ handleSubmitResume /\ PostFailed
            => /\ formData' = formData
               /\ notified' = notified
               /\ formAlert' = Notice("danger", "error al enviar", 0)
               /\ ~isSubmitting'
        /\ handleSubmitResume /\ PostStored
            => /\ formData' = EmptyForm
               /\ notified' = Append(notified, postMsg.body)
               /\ \A f \in DOMAIN postMsg.body : store[Len(store)][f] = postMsg.body[f]
               /\ ~isSubmitting'
        /\ handleSubmitCall
            => isSubmitting' /\ postMsg'.body = SurveyData(formData)
        /\ notified' # notified => handleSubmitResume /\ PostStored ]_vars

\* a submit has failed: the error notice is shown over a form that still
\* holds the rating and a checked tag, nothing was notified or stored, and
\* the button is enabled again
C13_Witness ==
    /\ formAlert = Notice("danger", "error al enviar", 0)
    /\ formData.calificacion # <<>>
    /\ formData.problemas # <<>>
    /\ notified = <<>>
    /\ store = <<>>
    /\ postReq = "idle"
    /\ ~isSubmitting

\* the last file written
LastFile == files[Len(files)]

\* C14: the click writes no file; it defers a callback that holds the list
\* as it is at the click.  Only that callback writes a file: the rows of the
\* list it holds, whatever the list has become by a clear or a re-fetch in
\* between, and its notice reports the number of rows written.  No other
\* step changes what a pending callback holds.
C14_ExportWritesClickSnapshot ==
    [][ /\ exportResults /\ surveys # <<>>
            => timers' = Append(timers, surveys) /\ files' = files
        /\ timers' # timers /\ Len(timers') > Len(timers)
            => timers' = Append(timers, surveys) /\ files' = files
        /\ timers' # timers /\ Len(timers') <= Len(timers)
            => timers' = Tail(timers) /\ files' # files
        /\ files' # files
            => /\ timers # <<>>
               /\ timers' = Tail(timers)
               /\ files' = Append(files, CsvRows(Head(timers)))
               /\ alert' = Notice("success", "exportado", Len(files'[Len(files')]))
        /\ surveys' # surveys => timers' = timers /\ files' = files ]_vars

\* a file with rows has just been written and reported although the list on
\* display is empty: it was cleared between the click and the callback
C14_Witness ==
    /\ files # <<>>
    /\ Len(LastFile) >= 1
    /\ surveys = <<>>
    /\ timers = <<>>
    /\ alert = Notice("success", "exportado", Len(LastFile))

====
